---- MODULE Spec2Model ----
(***************************************************************************)
(* Model of modules/optimizer.py: the protocol design optimizer.           *)
(*                                                                         *)
(* Numbers.  Python floats are modelled as exact scaled integers:          *)
(*   power        in millionths            (PowerScale = 1.0)              *)
(*   feasibility  in units of 1/2000       (FeasScale  = 1.0)              *)
(*   score        in units of 1/5000000    (ScoreScale = 1.0), so that     *)
(*                0.6*power + 0.4*feasibility = 3*power + 1000*feas        *)
(*   rand_ratio   in tenths (10, 15, 20 for 1.0, 1.5, 2.0)                 *)
(*   variation_frac, effect size and alpha in hundredths.                  *)
(*                                                                         *)
(* Lists of candidate dicts are modelled by reference: `pool` holds the    *)
(* dicts, `result` holds pool positions (the same objects, as in Python).  *)
(*                                                                         *)
(* The module-level generator of Python's `random` is process-wide state   *)
(* shared by all calls.  It is never seeded, so its output stream is       *)
(* arbitrary.  `rng` is the generator's position: one entry per batch of   *)
(* three outputs handed out so far (randint, choice, choice), naming the   *)
(* call that consumed it; the outputs themselves are the candidate that    *)
(* call built from them.                                                   *)
(*                                                                         *)
(* `config` is the configuration the caller of optimize_protocol holds     *)
(* (variation fraction, effect size, alpha); the function's signature has  *)
(* no parameter that receives it.  `estimator_calls` logs, per call, the   *)
(* arguments with which score_design and compute_power were invoked.       *)
(* `direct` is a direct call of one function: its name, arguments, locals *)
(* and return value.  It also carries the calls of two other modules:      *)
(* generate_full_protocol of modules/protocol_optimizer.py and             *)
(* PatientGenerator.generate_patients of modules/patient_generator.py.     *)
(***************************************************************************)
EXTENDS Integers, Sequences, FiniteSets, TLC

VARIABLES parsed, pool_size, pick_k, pool, k, labels, result, pc, exception, rng,
          config, estimator_calls, direct

vars == <<parsed, pool_size, pick_k, pool, k, labels, result, pc, exception, rng,
          config, estimator_calls, direct>>

(* ---------------------------- bounds ---------------------------------- *)
\* largest pool_size tried with the narrow baseline
MaxPool == 3
\* largest pool_size tried with the wide baseline
MaxPoolWide == 2
\* largest pick_k tried
MaxPick == 3
\* largest pool_size tried with two calls in flight
MaxPairPool == 2

(* ----------------------- program constants ---------------------------- *)
PowerScale == 1000000
FeasScale == 2000
ScoreScale == 5 * PowerScale
DefaultSampleSize == 200
MinSampleSize == 20
MinPerGroup == 2
DefaultVariationFrac == 20
DefaultEstEffect == 40
DefaultAlpha == 5
LoosenessChoices == {0, 1, 2}
RandRatioChoices == {10, 15, 20}

Max(a, b) == IF a >= b THEN a ELSE b
Min(a, b) == IF a <= b THEN a ELSE b

\* Python int(): truncation toward zero of num/den (den > 0)
IntTrunc(num, den) == IF num >= 0 THEN num \div den ELSE -((-num) \div den)

(* -------------------------- compute_power ----------------------------- *)
\* TTestIndPower().power(effect_size=0.4, nobs1=n, alpha=0.05, ratio=1.0) for
\* n = 2..130, in millionths: two-sided two-sample t test, df = 2n-2,
\* noncentrality 0.4*sqrt(n/2).  Entry i is the value for n = i+1.
PowerTable ==
   <<
      57381, 67138, 76907, 86630, 96348, 106082, 115843, 125633,
      135452, 145296, 155162, 165046, 174943, 184850, 194760, 204670,
      214574, 224469, 234349, 244212, 254052, 263866, 273649, 283399,
      293111, 302783, 312410, 321991, 331522, 340999, 350422, 359786,
      369090, 378331, 387507, 396616, 405656, 414625, 423521, 432343,
      441090, 449760, 458351, 466862, 475292, 483641, 491906, 500088,
      508186, 516198, 524124, 531963, 539716, 547381, 554958, 562447,
      569848, 577159, 584382, 591516, 598562, 605518, 612385, 619163,
      625853, 632455, 638968, 645393, 651730, 657980, 664143, 670220,
      676210, 682115, 687934, 693669, 699319, 704886, 710370, 715772,
      721091, 726329, 731487, 736565, 741564, 746485, 751327, 756093,
      760782, 765396, 769935, 774400, 778791, 783111, 787358, 791535,
      795641, 799679, 803648, 807549, 811383, 815151, 818854, 822493,
      826068, 829580, 833030, 836420, 839748, 843018, 846228, 849381,
      852476, 855516, 858500, 861429, 864304, 867126, 869896, 872614,
      875281, 877898, 880466, 882986, 885457, 887882, 890260, 892593,
      894881 >>

\* from this per-group size on the power is 1.000000 to six places
PowerSaturatedFrom == 600

\* the value of power_calc.power where it is a number (not tabulated for
\* 131..599)
\* the type II error 1 - power returned in place of the power
power_calc_power_beta(effect_size, nobs1, alpha) ==
    PowerScale - (IF nobs1 >= PowerSaturatedFrom THEN PowerScale ELSE PowerTable[nobs1 - 1])

power_calc_power(effect_size, nobs1, alpha) ==
    IF nobs1 >= PowerSaturatedFrom THEN PowerScale ELSE PowerTable[nobs1 - 1]

\* what power_calc.power does with nobs1 (ratio = 1.0): for nobs1 = 0 the
\* harmonic sample size 1/(1/nobs1 + 1/nobs2) raises ZeroDivisionError; for
\* other nobs1 < 2 the degrees of freedom 2*nobs1 - 2 are not positive, the
\* critical value is NaN and NaN is returned without an exception
power_calc_behaviour(effect_size, nobs1, alpha) ==
    IF nobs1 = 0 THEN "raises" ELSE IF nobs1 < 2 THEN "nan" ELSE "float"

\* the try block returns NaN unchanged
compute_power_is_nan(effect_size, n_per_group, alpha) ==
    power_calc_behaviour(effect_size, n_per_group, alpha) = "nan"

\* the number compute_power returns when it is not NaN: 0.0 from the except
\* branch, else the library's value
compute_power(effect_size, n_per_group, alpha) ==
    IF power_calc_behaviour(effect_size, n_per_group, alpha) = "raises"
    THEN 0
    ELSE power_calc_power(effect_size, n_per_group, alpha)

(* --------------------------- score_design ----------------------------- *)
\* the per-group size rounded half up instead of truncated
n_per_group_of_rounded(sample_size) == Max(MinPerGroup, IntTrunc(sample_size + 1, 2))

n_per_group_of(sample_size) == Max(MinPerGroup, IntTrunc(sample_size, 2))

\* feasibility with the sample size divided by 1000.0
feasibility_of_thousand(sample_size, looseness_score) ==
    Max(0, Min(FeasScale, FeasScale - 2 * sample_size - 200 * looseness_score))

\* feasibility with the looseness term added instead of subtracted
feasibility_of_added(sample_size, looseness_score) ==
    Max(0, Min(FeasScale, FeasScale - sample_size + 200 * looseness_score))

feasibility_of(sample_size, looseness_score) ==
    Max(0, Min(FeasScale, FeasScale - sample_size - 200 * looseness_score))

\* score_design with the two weights swapped (0.4*power + 0.6*feasibility)
score_design_swapped(sample_size, looseness_score, est_effect) ==
    LET pow_score == compute_power(est_effect, n_per_group_of(sample_size), DefaultAlpha)
        feasibility == feasibility_of(sample_size, looseness_score)
    IN  2 * pow_score + 1500 * feasibility

\* score_design with the feasibility weight mistyped (0.6*power + 4*feasibility)
score_design_typo(sample_size, looseness_score, est_effect) ==
    LET pow_score == compute_power(est_effect, n_per_group_of(sample_size), DefaultAlpha)
        feasibility == feasibility_of(sample_size, looseness_score)
    IN  3 * pow_score + 10000 * feasibility

score_design(sample_size, looseness_score, est_effect) ==
    LET pow_score == compute_power(est_effect, n_per_group_of(sample_size), DefaultAlpha)
        feasibility == feasibility_of(sample_size, looseness_score)
    IN  3 * pow_score + 1000 * feasibility

(* ------------------------ generate_candidate -------------------------- *)
\* a missing sample size replaced by 100
base_n_of_hundred(p) ==
    IF "sample_size" \in DOMAIN p /\ p.sample_size # 0
    THEN p.sample_size ELSE 100

\* parsed.get("sample_size") or 200
base_n_of(p) ==
    IF "sample_size" \in DOMAIN p /\ p.sample_size # 0
    THEN p.sample_size ELSE DefaultSampleSize

\* delta rounded to the nearest integer instead of truncated
delta_of_rounded(p, variation_frac) ==
    IntTrunc(base_n_of(p) * variation_frac + 50, 100)

delta_of(p, variation_frac) == IntTrunc(base_n_of(p) * variation_frac, 100)

\* draws with looseness chosen from 0..3
Draws_looseness_three(p, variation_frac) ==
    [randint : (-delta_of(p, variation_frac))..delta_of(p, variation_frac),
     looseness : LoosenessChoices \cup {3},
     rand_ratio : RandRatioChoices]

\* the outcomes of random.randint(-delta, delta), random.choice([0,1,2]) and
\* random.choice([1.0, 1.5, 2.0])
Draws(p, variation_frac) ==
    [randint : (-delta_of(p, variation_frac))..delta_of(p, variation_frac),
     looseness : LoosenessChoices,
     rand_ratio : RandRatioChoices]

\* new_n without the floor at 20
new_n_of_unfloored(p, variation_frac, draw) == base_n_of(p) + draw.randint

\* new_n = max(20, base_n + random.randint(-delta, delta))
new_n_of(p, variation_frac, draw) == Max(MinSampleSize, base_n_of(p) + draw.randint)

\* the arguments generate_candidate hands to score_design, and score_design
\* to compute_power
score_design_call(new_n) ==
    [sample_size |-> new_n, n_per_group |-> n_per_group_of(new_n)]

\* generate_candidate that also stores the two intermediate estimates
generate_candidate_six(p, variation_frac, draw) ==
    LET new_n == Max(MinSampleSize, base_n_of(p) + draw.randint)
    IN  [sample_size |-> new_n,
         looseness |-> draw.looseness,
         rand_ratio |-> draw.rand_ratio,
         power |-> compute_power(DefaultEstEffect, n_per_group_of(new_n), DefaultAlpha),
         feasibility |-> feasibility_of(new_n, draw.looseness),
         score |-> score_design(new_n, draw.looseness, DefaultEstEffect)]

\* generate_candidate whose score grows with the randomization ratio
generate_candidate_ratio_scored(p, variation_frac, draw) ==
    LET new_n == new_n_of(p, variation_frac, draw)
    IN  [sample_size |-> new_n,
         looseness |-> draw.looseness,
         rand_ratio |-> draw.rand_ratio,
         score |-> score_design(new_n, draw.looseness, DefaultEstEffect)
                      + draw.rand_ratio]

generate_candidate(p, variation_frac, draw) ==
    LET new_n == new_n_of(p, variation_frac, draw)
    IN  [sample_size |-> new_n,
         looseness |-> draw.looseness,
         rand_ratio |-> draw.rand_ratio,
         score |-> score_design(new_n, draw.looseness, DefaultEstEffect)]

(* ------------------------- sorting, slicing --------------------------- *)
\* position of x in the list that is already sorted by descending score:
\* after every element whose score is >= that of x (stable)
RECURSIVE InsertByScore(_, _, _)
InsertByScore(sortedIds, x, P) ==
    IF sortedIds = <<>> THEN <<x>>
    ELSE IF P[Head(sortedIds)].score >= P[x].score
         THEN <<Head(sortedIds)>> \o InsertByScore(Tail(sortedIds), x, P)
         ELSE <<x>> \o sortedIds

\* sorted(ids, key=lambda x: -x['score']) -- Python's sort is stable
RECURSIVE sorted_by_score(_, _)
sorted_by_score(ids, P) ==
    IF ids = <<>> THEN <<>>
    ELSE InsertByScore(sorted_by_score(SubSeq(ids, 1, Len(ids) - 1), P), ids[Len(ids)], P)

\* lst[:n] for any integer n
slice_to(lst, n) ==
    IF n >= 0 THEN SubSeq(lst, 1, Min(n, Len(lst)))
    ELSE SubSeq(lst, 1, Max(0, Len(lst) + n))

(* ------------------------------ KMeans -------------------------------- *)
\* X = [[sample_size, looseness, rand_ratio] for c in pool]
feature_vectors(P) ==
    [i \in 1..Len(P) |-> <<P[i].sample_size, P[i].looseness, P[i].rand_ratio>>]

DistinctRows(X) == {X[i] : i \in 1..Len(X)}

\* KMeans(n_clusters=k).fit(X) raises for n_clusters < 1 and for fewer
\* samples than clusters (also for the empty array)
kmeans_raises(X, n_clusters) == n_clusters < 1 \/ Len(X) < n_clusters

\* The labelings KMeans can return.  Labels are nearest-centre assignments,
\* so equal rows get equal labels; with at least n_clusters distinct rows
\* every label 0..n_clusters-1 is used, with fewer distinct rows some label
\* stays unused (scikit-learn warns and returns).
kmeans_labels(X, n_clusters) ==
    {L \in [1..Len(X) -> 0..(n_clusters - 1)] :
        /\ \A i, j \in 1..Len(X) : X[i] = X[j] => L[i] = L[j]
        /\ Cardinality(DistinctRows(X)) >= n_clusters
              => \A lab \in 0..(n_clusters - 1) : \E i \in 1..Len(X) : L[i] = lab}

(* --------------------------- optimize_protocol ------------------------ *)
\* members without the label filter
members_of_unfiltered(L, lab) == [i \in 1..Len(L) |-> i]

\* members = [pool[i] for i in range(len(pool)) if labels[i]==lab]
members_of(L, lab) == SelectSeq([i \in 1..Len(L) |-> i], LAMBDA i : L[i] = lab)

\* the loop taking the last element of members_sorted
selected_of_worst(P, L, kk) ==
    [lab1 \in 1..kk |->
        sorted_by_score(members_of(L, lab1 - 1), P)[Len(members_of(L, lab1 - 1))]]

\* the for-loop over range(k): members_sorted[0] of every label
selected_of(P, L, kk) ==
    [lab1 \in 1..kk |-> sorted_by_score(members_of(L, lab1 - 1), P)[1]]

\* selection without the final sort
select_result_unsorted(P, L, kk) == selected_of(P, L, kk)

\* the final selected.sort(key=lambda x: -x['score'])
select_result(P, L, kk) == sorted_by_score(selected_of(P, L, kk), P)

\* the except branch slicing the pool without sorting it
fallback_result_unsorted(P, kk) == slice_to([i \in 1..Len(P) |-> i], kk)

\* the except branch: sorted(pool, ...)[:k]
fallback_result(P, kk) ==
    slice_to(sorted_by_score([i \in 1..Len(P) |-> i], P), kk)

\* k without the clamp to the pool's length
k_of_unclamped(pk, P) == pk

\* k = min(pick_k, len(pool))
k_of(pk, P) == Min(pk, Len(P))

Callers == DOMAIN pc

\* one iteration of "for _ in range(pool_size)": generate_candidate + append
Generate(c) ==
    /\ pc[c] = "generate"
    /\ Len(pool[c]) < pool_size[c]
    /\ \E draw \in Draws(parsed[c], DefaultVariationFrac) :
          /\ pool' = [pool EXCEPT ![c] =
                        Append(@, generate_candidate(parsed[c], DefaultVariationFrac, draw))]
          /\ rng' = Append(rng, c)
          /\ estimator_calls' = [estimator_calls EXCEPT ![c] =
                        Append(@, score_design_call(
                                     new_n_of(parsed[c], DefaultVariationFrac, draw)))]
    /\ UNCHANGED <<parsed, pool_size, pick_k, k, labels, result, pc, exception,
                   config, direct>>

\* KMeans fitted as soon as the pool holds one candidate
Cluster_early(c) ==
    /\ pc[c] = "generate"
    /\ Len(pool[c]) >= 1
    /\ ~kmeans_raises(feature_vectors(pool[c]), k_of(pick_k[c], pool[c]))
    /\ k' = [k EXCEPT ![c] = k_of(pick_k[c], pool[c])]
    /\ \E L \in kmeans_labels(feature_vectors(pool[c]), k_of(pick_k[c], pool[c])) :
          labels' = [labels EXCEPT ![c] = L]
    /\ pc' = [pc EXCEPT ![c] = "select"]
    /\ UNCHANGED <<parsed, pool_size, pick_k, pool, result, exception, rng,
                   config, estimator_calls, direct>>

\* loop done; X and k computed; KMeans fits and returns labels
Cluster(c) ==
    /\ pc[c] = "generate"
    /\ Len(pool[c]) >= pool_size[c]
    /\ ~kmeans_raises(feature_vectors(pool[c]), k_of(pick_k[c], pool[c]))
    /\ k' = [k EXCEPT ![c] = k_of(pick_k[c], pool[c])]
    /\ \E L \in kmeans_labels(feature_vectors(pool[c]), k_of(pick_k[c], pool[c])) :
          labels' = [labels EXCEPT ![c] = L]
    /\ pc' = [pc EXCEPT ![c] = "select"]
    /\ UNCHANGED <<parsed, pool_size, pick_k, pool, result, exception, rng,
                   config, estimator_calls, direct>>

\* loop done; X and k computed; KMeans raises; except branch returns
ClusterFallback(c) ==
    /\ pc[c] = "generate"
    /\ Len(pool[c]) >= pool_size[c]
    /\ kmeans_raises(feature_vectors(pool[c]), k_of(pick_k[c], pool[c]))
    /\ k' = [k EXCEPT ![c] = k_of(pick_k[c], pool[c])]
    /\ result' = [result EXCEPT ![c] = fallback_result(pool[c], k_of(pick_k[c], pool[c]))]
    /\ pc' = [pc EXCEPT ![c] = "returned"]
    /\ UNCHANGED <<parsed, pool_size, pick_k, pool, labels, exception, rng,
                   config, estimator_calls, direct>>

\* selection that also overwrites the score of every pool candidate
Select_rescoring(c) ==
    /\ pc[c] = "select"
    /\ \A lab \in 0..(k[c] - 1) : members_of(labels[c], lab) # <<>>
    /\ result' = [result EXCEPT ![c] = select_result(pool[c], labels[c], k[c])]
    /\ pool' = [pool EXCEPT ![c] =
                  [i \in 1..Len(pool[c]) |-> [pool[c][i] EXCEPT !.score = 0]]]
    /\ pc' = [pc EXCEPT ![c] = "returned"]
    /\ UNCHANGED <<parsed, pool_size, pick_k, k, labels, exception, rng,
                   config, estimator_calls, direct>>

\* the selection loop finds a member for every label; sort; return
Select(c) ==
    /\ pc[c] = "select"
    /\ \A lab \in 0..(k[c] - 1) : members_of(labels[c], lab) # <<>>
    /\ result' = [result EXCEPT ![c] = select_result(pool[c], labels[c], k[c])]
    /\ pc' = [pc EXCEPT ![c] = "returned"]
    /\ UNCHANGED <<parsed, pool_size, pick_k, pool, k, labels, exception, rng,
                   config, estimator_calls, direct>>

\* members_sorted[0] on an empty list: IndexError, outside the try block
SelectIndexError(c) ==
    /\ pc[c] = "select"
    /\ \E lab \in 0..(k[c] - 1) : members_of(labels[c], lab) = <<>>
    /\ exception' = [exception EXCEPT ![c] = "IndexError"]
    /\ pc' = [pc EXCEPT ![c] = "raised"]
    /\ UNCHANGED <<parsed, pool_size, pick_k, pool, k, labels, result, rng,
                   config, estimator_calls, direct>>

(* ------------------------------ inputs -------------------------------- *)
\* baseline 10: every sample size is floored to 20
NarrowParsed == [sample_size |-> 10]
\* baseline 19: sample sizes 20, 21, 22 (16..19 floored)
WideParsed == [sample_size |-> 19]

\* the caller supplies no configuration value: the stated defaults
DefaultConfig ==
    [variation_fraction |-> DefaultVariationFrac,
     assumed_effect_size |-> DefaultEstEffect,
     alpha |-> DefaultAlpha]

\* no helper function is called directly
NoDirectCall == [fn |-> "none"]

Inputs ==
    {in \in [parsed : {NarrowParsed, WideParsed},
             pool_size : (-1)..Max(MaxPool, MaxPoolWide),
             pick_k : (-1)..MaxPick,
             config : {DefaultConfig}] :
        in.pool_size <= (IF in.parsed = NarrowParsed THEN MaxPool ELSE MaxPoolWide)}

InitCalls(callers, in) ==
    /\ parsed = [c \in callers |-> in.parsed]
    /\ pool_size = [c \in callers |-> in.pool_size]
    /\ pick_k = [c \in callers |-> in.pick_k]
    /\ pool = [c \in callers |-> <<>>]
    /\ k = [c \in callers |-> 0]
    /\ labels = [c \in callers |-> <<>>]
    /\ result = [c \in callers |-> <<>>]
    /\ pc = [c \in callers |-> "generate"]
    /\ exception = [c \in callers |-> "none"]
    /\ rng = <<>>
    /\ config = [c \in callers |-> in.config]
    /\ estimator_calls = [c \in callers |-> <<>>]
    /\ direct = NoDirectCall

\* one call of optimize_protocol
Init == \E in \in Inputs : InitCalls({1}, in)

GenerateStep == \E c \in Callers : Generate(c)
ClusterStep == \E c \in Callers : Cluster(c)
ClusterFallbackStep == \E c \in Callers : ClusterFallback(c)
SelectStep == \E c \in Callers : Select(c)
SelectIndexErrorStep == \E c \in Callers : SelectIndexError(c)

Next ==
    \/ GenerateStep
    \/ ClusterStep
    \/ ClusterFallbackStep
    \/ SelectStep
    \/ SelectIndexErrorStep

Spec == Init /\ [][Next]_vars

(* ------------------- direct calls of the helpers ---------------------- *)
\* largest small sample size passed to score_design directly
MaxDirectSample == 40
\* largest per-group size passed to compute_power directly
MaxDirectPerGroup == 12

\* sample sizes around the points where the feasibility clamp starts to cut
LargeSampleSizes ==
    {1399, 1400, 1401, 1599, 1600, 1601, 1799, 1800, 1801, 1999, 2000, 2001, 2400}

ScoreSampleSizes == ((-2)..MaxDirectSample) \cup LargeSampleSizes

\* descriptors: key absent, value 0, values below and above 20, the default
DirectParsed ==
    {<<>>, [sample_size |-> 0], [sample_size |-> 5], [sample_size |-> 19],
     [sample_size |-> 25], [sample_size |-> 200]}

DirectVariationFracs == {-20, 10, 20, 30}

DirectCalls ==
    [fn : {"generate_candidate"}, pc : {"called"},
       parsed : DirectParsed, variation_frac : DirectVariationFracs]
    \cup
    [fn : {"score_design"}, pc : {"called"},
       sample_size : ScoreSampleSizes, looseness_score : 0..3,
       est_effect : {DefaultEstEffect}]
    \cup
    [fn : {"compute_power"}, pc : {"called"},
       effect_size : {DefaultEstEffect}, n_per_group : (-1)..MaxDirectPerGroup,
       alpha : {DefaultAlpha}]

\* generate_candidate(parsed, variation_frac) returns a candidate
GenerateCandidateCall ==
    /\ direct.fn = "generate_candidate"
    /\ direct.pc = "called"
    /\ delta_of(direct.parsed, direct.variation_frac) >= 0
    /\ \E draw \in Draws(direct.parsed, direct.variation_frac) :
          direct' = [fn |-> "generate_candidate", pc |-> "returned",
                     parsed |-> direct.parsed,
                     variation_frac |-> direct.variation_frac,
                     draw |-> draw,
                     estimator_call |->
                        score_design_call(new_n_of(direct.parsed,
                                                   direct.variation_frac, draw)),
                     ret |-> generate_candidate(direct.parsed, direct.variation_frac, draw)]
    /\ UNCHANGED <<parsed, pool_size, pick_k, pool, k, labels, result, pc, exception,
                   rng, config, estimator_calls>>

\* random.randint(-delta, delta) with delta < 0: ValueError (empty range)
GenerateCandidateValueError ==
    /\ direct.fn = "generate_candidate"
    /\ direct.pc = "called"
    /\ delta_of(direct.parsed, direct.variation_frac) < 0
    /\ direct' = [fn |-> "generate_candidate", pc |-> "raised",
                  parsed |-> direct.parsed,
                  variation_frac |-> direct.variation_frac,
                  exception |-> "ValueError"]
    /\ UNCHANGED <<parsed, pool_size, pick_k, pool, k, labels, result, pc, exception,
                   rng, config, estimator_calls>>

\* score_design(sample_size, looseness_score): its locals and return value
ScoreDesignCall ==
    /\ direct.fn = "score_design"
    /\ direct.pc = "called"
    /\ direct' = [fn |-> "score_design", pc |-> "returned",
                  sample_size |-> direct.sample_size,
                  looseness_score |-> direct.looseness_score,
                  est_effect |-> direct.est_effect,
                  n_per_group |-> n_per_group_of(direct.sample_size),
                  pow_score |-> compute_power(direct.est_effect,
                                              n_per_group_of(direct.sample_size),
                                              DefaultAlpha),
                  feasibility |-> feasibility_of(direct.sample_size,
                                                 direct.looseness_score),
                  ret |-> score_design(direct.sample_size, direct.looseness_score,
                                       direct.est_effect)]
    /\ UNCHANGED <<parsed, pool_size, pick_k, pool, k, labels, result, pc, exception,
                   rng, config, estimator_calls>>

\* compute_power(effect_size, n_per_group, alpha): the try block completes
ComputePowerCall ==
    /\ direct.fn = "compute_power"
    /\ direct.pc = "called"
    /\ power_calc_behaviour(direct.effect_size, direct.n_per_group, direct.alpha)
          # "raises"
    /\ direct' = [fn |-> "compute_power", pc |-> "returned",
                  effect_size |-> direct.effect_size,
                  n_per_group |-> direct.n_per_group,
                  alpha |-> direct.alpha,
                  path |-> "try",
                  ret |-> IF compute_power_is_nan(direct.effect_size,
                                                  direct.n_per_group, direct.alpha)
                          THEN [nan |-> TRUE]
                          ELSE [nan |-> FALSE,
                                value |-> compute_power(direct.effect_size,
                                                        direct.n_per_group,
                                                        direct.alpha)]]
    /\ UNCHANGED <<parsed, pool_size, pick_k, pool, k, labels, result, pc, exception,
                   rng, config, estimator_calls>>

\* compute_power: power_calc.power raises, the except branch returns 0.0
ComputePowerExcept ==
    /\ direct.fn = "compute_power"
    /\ direct.pc = "called"
    /\ power_calc_behaviour(direct.effect_size, direct.n_per_group, direct.alpha)
          = "raises"
    /\ direct' = [fn |-> "compute_power", pc |-> "returned",
                  effect_size |-> direct.effect_size,
                  n_per_group |-> direct.n_per_group,
                  alpha |-> direct.alpha,
                  path |-> "except",
                  ret |-> [nan |-> FALSE,
                           value |-> compute_power(direct.effect_size,
                                                   direct.n_per_group,
                                                   direct.alpha)]]
    /\ UNCHANGED <<parsed, pool_size, pick_k, pool, k, labels, result, pc, exception,
                   rng, config, estimator_calls>>

\* one direct call of a helper function, no call of optimize_protocol
InitDirect ==
    /\ parsed = <<>> /\ pool_size = <<>> /\ pick_k = <<>> /\ pool = <<>>
    /\ k = <<>> /\ labels = <<>> /\ result = <<>> /\ pc = <<>>
    /\ exception = <<>> /\ rng = <<>> /\ config = <<>> /\ estimator_calls = <<>>
    /\ direct \in DirectCalls

NextDirect ==
    \/ GenerateCandidateCall
    \/ GenerateCandidateValueError
    \/ ScoreDesignCall
    \/ ComputePowerCall
    \/ ComputePowerExcept

SpecDirect == InitDirect /\ [][NextDirect]_vars

(* --------------- optimize_protocol under a held configuration --------- *)
\* configurations a caller may hold: the defaults, or another variation
\* fraction
HeldConfigs ==
    {DefaultConfig, [DefaultConfig EXCEPT !.variation_fraction = 10]}

ConfigInputs ==
    [parsed : {WideParsed}, pool_size : 0..2, pick_k : 0..2, config : HeldConfigs]

InitConfig == \E in \in ConfigInputs : InitCalls({1}, in)

SpecConfig == InitConfig /\ [][Next]_vars

(* --------------------- two calls sharing the process ------------------ *)
PairInputs ==
    [parsed : {NarrowParsed}, pool_size : 0..MaxPairPool, pick_k : 0..2,
     config : {DefaultConfig}]

\* two calls of optimize_protocol with identical arguments, interleaved at
\* the granularity of one generate_candidate call
InitPair == \E in \in PairInputs : InitCalls({1, 2}, in)

SpecPair == InitPair /\ [][Next]_vars

(* ------------- optimize_protocol around a baseline of 2000 ------------ *)
\* largest pool generated around the baseline of 2000
MaxTiePool == 2

\* baseline 2000: delta is 400, sample sizes 1600..2400
TieParsed == [sample_size |-> 2000]

\* the sample sizes followed here: both give the per-group size 1000, hence
\* the same power, and a feasibility clamped to 0.0
TieSampleSizes == {2000, 2001}

TieInputs ==
    [parsed : {TieParsed}, pool_size : 0..MaxTiePool, pick_k : 0..2,
     config : {DefaultConfig}]

InitTie == \E in \in TieInputs : InitCalls({1}, in)

\* the iterations of the generation loop whose randint draw is 0 or 1
GenerateNearBaseline(c) ==
    /\ Generate(c)
    /\ pool'[c][Len(pool'[c])].sample_size \in TieSampleSizes

GenerateNearBaselineStep == \E c \in Callers : GenerateNearBaseline(c)

NextTie ==
    \/ GenerateNearBaselineStep
    \/ ClusterStep
    \/ ClusterFallbackStep
    \/ SelectStep
    \/ SelectIndexErrorStep

SpecTie == InitTie /\ [][NextTie]_vars

(* ------ modules/protocol_optimizer.py: generate_full_protocol --------- *)
\* most protocol objects in one answer of the language model
MaxOptions == 2

\* max_attempts = 2
max_attempts == 2

\* the variables of optimize_protocol, which these calls leave alone
optimizer_vars ==
    <<parsed, pool_size, pick_k, pool, k, labels, result, pc, exception, rng,
      config, estimator_calls>>

\* the two keys the function adds to a protocol object that lacks them
MetadataKeys == {"schema_version", "generated_at"}

\* a protocol object, as the set of metadata keys it carries
ProtocolObjects == SUBSET MetadataKeys

ProtocolLists == UNION {[1..n -> ProtocolObjects] : n \in 0..MaxOptions}

\* the texts _call_llm_for_protocol can return: a bare JSON array of
\* objects, the same array inside prose or a code fence, text that is no
\* JSON, and a JSON array whose elements are not objects
LLMTexts ==
    [text : {"array", "fenced_array"}, objects : ProtocolLists]
    \cup {[text |-> "prose"], [text |-> "array_of_scalars"]}

\* last_raw = None
NoText == [text |-> "none"]

\* the substring from the first '[' to the last ']'
json_text_of(raw) ==
    IF raw.text = "fenced_array"
    THEN [text |-> "array", objects |-> raw.objects]
    ELSE raw

\* json.loads(json_text) raises json.JSONDecodeError
json_loads_raises(json_text) == json_text.text \notin {"array", "array_of_scalars"}

\* the loop "for p in protocols" raises TypeError on an element that is not
\* a dict
add_metadata_raises(json_text) == json_text.text = "array_of_scalars"

\* protocols after the loop that adds schema_version and generated_at
add_metadata(json_text) ==
    [i \in 1..Len(json_text.objects) |-> json_text.objects[i] \cup MetadataKeys]

\* the answers with which the try block runs to its return statement
ParsableTexts ==
    {raw \in LLMTexts :
        /\ ~json_loads_raises(json_text_of(raw))
        /\ ~add_metadata_raises(json_text_of(raw))}

\* the handler raises although one attempt is left
reraise_now_late(attempt) == attempt + 1 > max_attempts

\* if attempt + 1 >= max_attempts: raise
reraise_now(attempt) == attempt + 1 >= max_attempts

\* what makes the try block leave through "except Exception": the call
\* raises (ValueError without an API key, an API error with one), or the
\* metadata loop raises TypeError
TryFailures(d) ==
    IF d.api_key
    THEN {[exc |-> "APIError", last_raw |-> d.last_raw]}
         \cup {[exc |-> "TypeError", last_raw |-> raw] :
                  raw \in {t \in LLMTexts :
                              /\ ~json_loads_raises(json_text_of(t))
                              /\ add_metadata_raises(json_text_of(t))}}
    ELSE {[exc |-> "ValueError", last_raw |-> d.last_raw]}

\* what makes the follow-up try block leave through "except Exception"
FollowupFailures == {"APIError", "JSONDecodeError", "TypeError"}

ProtocolCalls ==
    [fn : {"generate_full_protocol"}, pc : {"for"}, api_key : BOOLEAN,
     attempt : {-1}, last_raw : {NoText}, log : {<<>>}, ret : {<<>>},
     exception : {"none"}]

\* for attempt in range(max_attempts): the next iteration, or the raise
\* after the loop
ProtocolLoopHead ==
    /\ direct.fn = "generate_full_protocol"
    /\ direct.pc = "for"
    /\ IF direct.attempt + 1 < max_attempts
       THEN direct' = [direct EXCEPT !.attempt = @ + 1, !.pc = "try"]
       ELSE direct' = [direct EXCEPT !.pc = "raised",
                          !.exception = "RuntimeError_unable_to_generate"]
    /\ UNCHANGED optimizer_vars

\* the call returns text that parses; metadata added; return protocols
ProtocolTryReturn ==
    /\ direct.fn = "generate_full_protocol"
    /\ direct.pc = "try"
    /\ direct.api_key
    /\ \E raw \in ParsableTexts :
          direct' = [direct EXCEPT
                        !.pc = "returned",
                        !.last_raw = raw,
                        !.log = Append(@, [call |-> "primary", outcome |-> "ok"]),
                        !.ret = add_metadata(json_text_of(raw))]
    /\ UNCHANGED optimizer_vars

\* the call returns text that json.loads rejects: the JSONDecodeError
\* handler is entered
ProtocolTryJSONDecodeError ==
    /\ direct.fn = "generate_full_protocol"
    /\ direct.pc = "try"
    /\ direct.api_key
    /\ \E raw \in LLMTexts :
          /\ json_loads_raises(json_text_of(raw))
          /\ direct' = [direct EXCEPT
                           !.pc = "except_json",
                           !.last_raw = raw,
                           !.log = Append(@, [call |-> "primary",
                                              outcome |-> "JSONDecodeError"])]
    /\ UNCHANGED optimizer_vars

\* any other exception in the try block: re-raise on the last attempt,
\* otherwise sleep and go on with the loop
ProtocolTryException ==
    /\ direct.fn = "generate_full_protocol"
    /\ direct.pc = "try"
    /\ \E f \in TryFailures(direct) :
          direct' = [direct EXCEPT
                        !.pc = IF reraise_now(direct.attempt) THEN "raised" ELSE "for",
                        !.exception = IF reraise_now(direct.attempt) THEN f.exc ELSE @,
                        !.last_raw = f.last_raw,
                        !.log = Append(@, [call |-> "primary", outcome |-> f.exc])]
    /\ UNCHANGED optimizer_vars

\* the follow-up call returns text that parses: return protocols
ProtocolFollowupReturn ==
    /\ direct.fn = "generate_full_protocol"
    /\ direct.pc = "except_json"
    /\ \E raw2 \in ParsableTexts :
          direct' = [direct EXCEPT
                        !.pc = "returned",
                        !.log = Append(@, [call |-> "followup", outcome |-> "ok"]),
                        !.ret = add_metadata(json_text_of(raw2))]
    /\ UNCHANGED optimizer_vars

\* anything raised in the follow-up try block becomes RuntimeError
ProtocolFollowupFailure ==
    /\ direct.fn = "generate_full_protocol"
    /\ direct.pc = "except_json"
    /\ \E e \in FollowupFailures :
          direct' = [direct EXCEPT
                        !.pc = "raised",
                        !.exception = "RuntimeError_failed_to_parse",
                        !.log = Append(@, [call |-> "followup", outcome |-> e])]
    /\ UNCHANGED optimizer_vars

\* one call of generate_full_protocol, at the loop of line 179
InitProtocol ==
    /\ parsed = <<>> /\ pool_size = <<>> /\ pick_k = <<>> /\ pool = <<>>
    /\ k = <<>> /\ labels = <<>> /\ result = <<>> /\ pc = <<>>
    /\ exception = <<>> /\ rng = <<>> /\ config = <<>> /\ estimator_calls = <<>>
    /\ direct \in ProtocolCalls

NextProtocol ==
    \/ ProtocolLoopHead
    \/ ProtocolTryReturn
    \/ ProtocolTryJSONDecodeError
    \/ ProtocolTryException
    \/ ProtocolFollowupReturn
    \/ ProtocolFollowupFailure

\* every call of the language model returns or raises, and the function
\* runs on whenever it can
SpecProtocol == InitProtocol /\ [][NextProtocol]_vars /\ WF_vars(NextProtocol)

(* ---- modules/patient_generator.py: PatientGenerator.generate_patients - *)
\* largest accepted count whose loop is followed
MaxCount == 3

\* if count > 100: raise ValueError
PatientLimit == 100

OutputFormats == {"json", "csv", "synthea compatible"}

\* the two checks before the loop
count_check(count) ==
    IF count <= 0 THEN "ValueError_must_be_greater_than_0"
    ELSE IF count > PatientLimit THEN "ValueError_maximum_100"
    ELSE "ok"

\* where an iteration can fail: in _generate_single_patient, or in the
\* conversion of the formats that have one
FailureStages(output_format) ==
    IF output_format = "json" THEN {"generate"} ELSE {"generate", "format"}

\* the patient of iteration i in the requested format
formatted_patient(i, output_format) == [patient |-> i + 1, format |-> output_format]

PatientCalls ==
    [fn : {"generate_patients"}, pc : {"called"},
     count : ((-1)..MaxCount) \cup {PatientLimit + 1},
     output_format : OutputFormats,
     i : {0}, patients : {<<>>}, warnings : {<<>>}, ret : {<<>>},
     exception : {"none"}]

\* count <= 0 or count > 100: ValueError
PatientsCountRejected ==
    /\ direct.fn = "generate_patients"
    /\ direct.pc = "called"
    /\ count_check(direct.count) # "ok"
    /\ direct' = [direct EXCEPT !.pc = "raised",
                                !.exception = count_check(direct.count)]
    /\ UNCHANGED optimizer_vars

\* both checks pass: patients = [], the loop starts
PatientsCountAccepted ==
    /\ direct.fn = "generate_patients"
    /\ direct.pc = "called"
    /\ count_check(direct.count) = "ok"
    /\ direct' = [direct EXCEPT !.pc = "loop"]
    /\ UNCHANGED optimizer_vars

\* one iteration: the patient is generated, formatted and appended
PatientGenerated ==
    /\ direct.fn = "generate_patients"
    /\ direct.pc = "loop"
    /\ direct.i < direct.count
    /\ direct' = [direct EXCEPT
                     !.patients = Append(@, formatted_patient(direct.i,
                                                              direct.output_format)),
                     !.i = @ + 1]
    /\ UNCHANGED optimizer_vars

\* an iteration whose failure ends the loop
PatientSkipped_break ==
    /\ direct.fn = "generate_patients"
    /\ direct.pc = "loop"
    /\ direct.i < direct.count
    /\ \E stage \in FailureStages(direct.output_format) :
          direct' = [direct EXCEPT
                        !.warnings = Append(@, [patient |-> direct.i + 1,
                                                stage |-> stage]),
                        !.i = direct.count]
    /\ UNCHANGED optimizer_vars

\* one iteration: an exception is caught, a warning printed, continue
PatientSkipped ==
    /\ direct.fn = "generate_patients"
    /\ direct.pc = "loop"
    /\ direct.i < direct.count
    /\ \E stage \in FailureStages(direct.output_format) :
          direct' = [direct EXCEPT
                        !.warnings = Append(@, [patient |-> direct.i + 1,
                                                stage |-> stage]),
                        !.i = @ + 1]
    /\ UNCHANGED optimizer_vars

\* the loop is over and patients is not empty: return patients
PatientsReturn ==
    /\ direct.fn = "generate_patients"
    /\ direct.pc = "loop"
    /\ direct.i >= direct.count
    /\ direct.patients # <<>>
    /\ direct' = [direct EXCEPT !.pc = "returned", !.ret = direct.patients]
    /\ UNCHANGED optimizer_vars

\* the loop is over and patients is empty: raise Exception
PatientsNoneGenerated ==
    /\ direct.fn = "generate_patients"
    /\ direct.pc = "loop"
    /\ direct.i >= direct.count
    /\ direct.patients = <<>>
    /\ direct' = [direct EXCEPT !.pc = "raised",
                                !.exception = "Exception_failed_to_generate_any"]
    /\ UNCHANGED optimizer_vars

\* one call of generate_patients
InitPatients ==
    /\ parsed = <<>> /\ pool_size = <<>> /\ pick_k = <<>> /\ pool = <<>>
    /\ k = <<>> /\ labels = <<>> /\ result = <<>> /\ pc = <<>>
    /\ exception = <<>> /\ rng = <<>> /\ config = <<>> /\ estimator_calls = <<>>
    /\ direct \in PatientCalls

NextPatients ==
    \/ PatientsCountRejected
    \/ PatientsCountAccepted
    \/ PatientGenerated
    \/ PatientSkipped
    \/ PatientsReturn
    \/ PatientsNoneGenerated

SpecPatients == InitPatients /\ [][NextPatients]_vars

(* ------------------------------ properties ---------------------------- *)
Returned(c) == pc[c] = "returned"
ValidConfig(c) == pool_size[c] >= 1 /\ pick_k[c] >= 1

\* the returned list, as candidate records
Shortlist(c) == [i \in 1..Len(result[c]) |-> pool[c][result[c][i]]]

\* C1: for pool_size >= 1 and pick_k >= 1, whatever the draws, the returned
\* list has exactly min(pick_k, pool_size) elements and k is that value.
C1_ShortlistLength ==
    \A c \in Callers :
       (Returned(c) /\ ValidConfig(c)) =>
          /\ Len(result[c]) = Min(pick_k[c], pool_size[c])
          /\ k[c] = Min(pick_k[c], pool_size[c])

\* a call with pick_k above the pool size returned the clamped number
C1_Witness ==
    \E c \in Callers :
       /\ Returned(c)
       /\ pool_size[c] >= 2
       /\ pick_k[c] > pool_size[c]
       /\ Len(result[c]) = pool_size[c]

\* C2: with pool_size >= 1 and pick_k >= 1 no exception reaches the caller.
C2_NoExceptionEscapes ==
    \A c \in Callers : ValidConfig(c) => pc[c] # "raised"

\* C3: the returned list is sorted by non-increasing score.
C3_SortedByScore ==
    \A c \in Callers :
       Returned(c) =>
          \A i \in 1..(Len(result[c]) - 1) :
             Shortlist(c)[i].score >= Shortlist(c)[i + 1].score

\* the clustering path returned representatives whose label order was not
\* the score order
C3_Witness ==
    \E c \in Callers :
       /\ Returned(c)
       /\ labels[c] # <<>>
       /\ Len(result[c]) >= 2
       /\ result[c] # selected_of(pool[c], labels[c], k[c])
       /\ Shortlist(c)[1].score > Shortlist(c)[Len(result[c])].score

\* the batches of generator output were consumed by one call after the other
SequentialDraws(c1, c2) ==
    \A i, j \in 1..Len(rng) : (rng[i] = c1 /\ rng[j] = c2) => i < j

\* C4: two calls with identical arguments return identical shortlists
\* (both calls cluster into a single group, so the labels are determined).
C4_Determinism ==
    \A c1, c2 \in Callers :
       (/\ c1 # c2
        /\ Returned(c1) /\ Returned(c2)
        /\ parsed[c1] = parsed[c2]
        /\ pool_size[c1] = pool_size[c2]
        /\ pick_k[c1] = 1 /\ pick_k[c2] = 1
        /\ SequentialDraws(c1, c2))
       => Shortlist(c1) = Shortlist(c2)

\* the candidate built from the j-th batch of generator output
StreamCandidate(j) ==
    pool[rng[j]][Cardinality({i \in 1..j : rng[i] = rng[j]})]

\* what call c returns when it runs alone from the same generator state:
\* it consumes the first pool_size batches, and with k = 1 every label is 0
AloneShortlist(c) ==
    LET P == [j \in 1..pool_size[c] |-> StreamCandidate(j)]
        L == [j \in 1..pool_size[c] |-> 0]
        R == select_result(P, L, 1)
    IN  [i \in 1..Len(R) |-> P[R[i]]]

\* C5: a call interleaved with another returns what it returns when run
\* alone with the same inputs from the same generator state.
C5_IsolatedCalls ==
    \A c \in Callers :
       (/\ Returned(c)
        /\ pool_size[c] >= 1
        /\ pick_k[c] = 1
        /\ \E d \in Callers \ {c} : ~SequentialDraws(c, d) /\ ~SequentialDraws(d, c))
       => Shortlist(c) = AloneShortlist(c)

\* C6: pool_size < 1 or pick_k < 1 fails with InvalidConfiguration before any
\* candidate is generated and never returns a list; InvalidConfiguration has
\* no other cause.
C6_InvalidConfiguration ==
    \A c \in Callers :
       /\ ~ValidConfig(c) => (pool[c] = <<>> /\ ~Returned(c))
       /\ exception[c] = "InvalidConfiguration" => ~ValidConfig(c)

\* the claimed estimates of a candidate, restated from their formulas
ClaimedPerArm(n) == IF n \div 2 >= 2 THEN n \div 2 ELSE 2
ClaimedPower(n) == PowerTable[ClaimedPerArm(n) - 1]
ClaimedFeasibility(n, l) ==
    LET raw == FeasScale - n - (FeasScale \div 10) * l
    IN  IF raw < 0 THEN 0 ELSE IF raw > FeasScale THEN FeasScale ELSE raw

\* C7: every shortlisted candidate's score is 0.6*power + 0.4*feasibility
\* with power taken at max(2, floor(sample_size/2)) per arm.
C7_ScoreFormula ==
    \A c \in Callers :
       Returned(c) =>
          \A i \in 1..Len(result[c]) :
             LET cand == Shortlist(c)[i]
             IN  10 * cand.score =
                    6 * 5 * ClaimedPower(cand.sample_size)
                    + 4 * (ScoreScale \div FeasScale)
                        * ClaimedFeasibility(cand.sample_size, cand.looseness)

\* a returned candidate with an odd sample size and relaxed criteria
C7_Witness ==
    \E c \in Callers :
       /\ Returned(c)
       /\ \E i \in 1..Len(result[c]) :
             /\ Shortlist(c)[i].sample_size = 21
             /\ Shortlist(c)[i].looseness = 2

\* C8: power, feasibility and score of every shortlisted candidate lie in
\* [0, 1].
C8_UnitInterval ==
    \A c \in Callers :
       Returned(c) =>
          \A i \in 1..Len(result[c]) :
             LET cand == Shortlist(c)[i]
                 pow == compute_power(DefaultEstEffect,
                                      n_per_group_of(cand.sample_size), DefaultAlpha)
                 feas == feasibility_of(cand.sample_size, cand.looseness)
             IN  /\ 0 <= pow /\ pow <= PowerScale
                 /\ 0 <= feas /\ feas <= FeasScale
                 /\ 0 <= cand.score /\ cand.score <= ScoreScale

\* a returned candidate of the largest size and strictest criteria generated
C8_Witness ==
    \E c \in Callers :
       /\ Returned(c)
       /\ \E i \in 1..Len(result[c]) :
             /\ Shortlist(c)[i].sample_size = 22
             /\ Shortlist(c)[i].looseness = 0
             /\ Shortlist(c)[i].score > 0

SixFields ==
    {"sample_size", "looseness", "randomization_ratio", "power", "feasibility", "score"}
FourFields == {"sample_size", "looseness", "rand_ratio", "score"}

C10_DistinctPoolMembers ==
    \A c \in Callers :
       Returned(c) =>
          /\ \A i \in 1..Len(result[c]) : result[c][i] \in 1..Len(pool[c])
          /\ \A i, j \in 1..Len(result[c]) : i # j => result[c][i] # result[c][j]

\* the clustering path returned two representatives out of a larger pool
\* whose best candidate is not alone in its cluster
C10_Witness ==
    \E c \in Callers :
       /\ Returned(c)
       /\ labels[c] # <<>>
       /\ Len(result[c]) = 2
       /\ Len(pool[c]) = 3
       /\ Len(members_of(labels[c], labels[c][result[c][1]])) = 2

\* C11: when pool_size < pick_k the call returns exactly pool_size candidates,
\* the whole pool in descending score order, whatever the pool holds, and
\* raises nothing.
C11_SmallPoolReturnsWholePool ==
    \A c \in Callers :
       (pool_size[c] >= 1 /\ pick_k[c] > pool_size[c]) =>
          /\ pc[c] # "raised"
          /\ Returned(c) =>
                /\ Len(result[c]) = pool_size[c]
                /\ {result[c][i] : i \in 1..Len(result[c])} = 1..Len(pool[c])
                /\ \A i \in 1..(Len(result[c]) - 1) :
                      Shortlist(c)[i].score >= Shortlist(c)[i + 1].score

\* the call is over and clustering did not give k non-empty clusters: the fit
\* raised (no labels) or some label 0..k-1 has no member
ClusteringFailed(c) ==
    /\ pc[c] \in {"returned", "raised"}
    /\ \/ labels[c] = <<>>
       \/ \E lab \in 0..(k[c] - 1) : members_of(labels[c], lab) = <<>>

\* C12: whenever clustering does not give k non-empty clusters, the call
\* returns the top min(pick_k, pool_size) candidates of the sorted pool.
C12_FallbackOnClusteringFailure ==
    \A c \in Callers :
       (ValidConfig(c) /\ ClusteringFailed(c)) =>
          /\ Returned(c)
          /\ result[c] = fallback_result(pool[c], Min(pick_k[c], pool_size[c]))

DirectReturned(fn) == direct.fn = fn /\ direct.pc = "returned"

\* the baseline of a descriptor as the claims state it: 200 when the key
\* is absent
ClaimedBaseline(p) == IF DOMAIN p = {} THEN 200 ELSE p.sample_size
\* floor(baseline * variation_fraction), the fraction in hundredths
ClaimedDelta(b, vf) == (b * vf) \div 100

\* C13: a generated candidate has sample_size = max(20, baseline + d) for an
\* integer d in [-delta, delta], delta = floor(baseline * variation_fraction);
\* baseline 200 and fraction 0.2 give sample sizes in [160, 240].
C13_SampleSizePerturbation ==
    (DirectReturned("generate_candidate") /\ direct.parsed # [sample_size |-> 0]) =>
       LET b == ClaimedBaseline(direct.parsed)
           delta == ClaimedDelta(b, direct.variation_frac)
           d == direct.draw.randint
           n == direct.ret.sample_size
       IN  /\ -delta <= d /\ d <= delta
           /\ n = (IF b + d >= 20 THEN b + d ELSE 20)
           /\ (b = 200 /\ direct.variation_frac = 20) => (160 <= n /\ n <= 240)

\* baseline 19 and fraction 0.2 (delta 3, not 4) drew the largest offset
C13_Witness ==
    /\ DirectReturned("generate_candidate")
    /\ direct.parsed = [sample_size |-> 19]
    /\ direct.variation_frac = 20
    /\ direct.ret.sample_size = 22

\* C14: in every run of optimize_protocol the estimators are invoked only with
\* sample_size >= 20 and a per-arm size >= 2, once per candidate, and every
\* candidate of the pool and of the shortlist has sample_size >= 20.
C14_FloorsBeforeEstimation ==
    \A c \in Callers :
       /\ Len(estimator_calls[c]) = Len(pool[c])
       /\ \A i \in 1..Len(pool[c]) :
             /\ estimator_calls[c][i].sample_size >= 20
             /\ estimator_calls[c][i].n_per_group >= 2
             /\ estimator_calls[c][i].sample_size = pool[c][i].sample_size
             /\ pool[c][i].sample_size >= 20
       /\ \A i \in 1..Len(result[c]) : Shortlist(c)[i].sample_size >= 20

\* a run with a baseline below 20 returned a floored candidate
C14_Witness ==
    \E c \in Callers :
       /\ Returned(c)
       /\ parsed[c].sample_size < 20
       /\ Len(result[c]) >= 1
       /\ Shortlist(c)[1].sample_size = 20
       /\ estimator_calls[c][1].n_per_group = 10

\* C15: every candidate of the pool and of the shortlist has looseness in
\* {0, 1, 2} and rand_ratio in {1.0, 1.5, 2.0}.
C15_DrawnLevers ==
    \A c \in Callers :
       /\ \A i \in 1..Len(pool[c]) :
             /\ pool[c][i].looseness \in {0, 1, 2}
             /\ pool[c][i].rand_ratio \in {10, 15, 20}
       /\ \A i \in 1..Len(result[c]) :
             /\ Shortlist(c)[i].looseness \in {0, 1, 2}
             /\ Shortlist(c)[i].rand_ratio \in {10, 15, 20}

\* a returned shortlist holds the largest looseness and the largest ratio
C15_Witness ==
    \E c \in Callers :
       /\ Returned(c)
       /\ \E i \in 1..Len(result[c]) :
             Shortlist(c)[i].looseness = 2 /\ Shortlist(c)[i].rand_ratio = 20
       /\ \E i \in 1..Len(pool[c]) : pool[c][i].looseness = 0

\* C16: the perturbation half-width of every generated candidate is computed
\* from the variation fraction the caller configured (the default only when
\* none is supplied).
C16_ConfigHonoured ==
    \A c \in Callers :
       \A i \in 1..Len(pool[c]) :
          LET b == ClaimedBaseline(parsed[c])
              delta == ClaimedDelta(b, config[c].variation_fraction)
              n == pool[c][i].sample_size
          IN  \E d \in (-delta)..delta : n = (IF b + d >= 20 THEN b + d ELSE 20)

\* C17: without a sample size in the descriptor the baseline is 200; a
\* positive sample size is used unchanged.
C17_DefaultBaseline ==
    DirectReturned("generate_candidate") =>
       LET d == direct.draw.randint
           n == direct.ret.sample_size
           p == direct.parsed
       IN  /\ DOMAIN p = {} => n = (IF 200 + d >= 20 THEN 200 + d ELSE 20)
           /\ (DOMAIN p # {} /\ p.sample_size > 0) =>
                 n = (IF p.sample_size + d >= 20 THEN p.sample_size + d ELSE 20)

\* a descriptor without the key gave a candidate above 200
C17_Witness ==
    /\ DirectReturned("generate_candidate")
    /\ DOMAIN direct.parsed = {}
    /\ direct.ret.sample_size = 240

C20_PowerDegradesToZero ==
    (/\ DirectReturned("compute_power")
     /\ power_calc_behaviour(direct.effect_size, direct.n_per_group, direct.alpha)
           # "float")
    => (~direct.ret.nan /\ direct.ret.value = 0)

\* the per-group sizes for which the power is tabulated
TabulatedPerGroup == (2..(Len(PowerTable) + 1)) \cup {PowerSaturatedFrom}

\* C21: for the fixed effect size and alpha, the power is non-decreasing in
\* the per-group size (at least 2, the floor the caller applies): a larger
\* per-group size never gives a smaller power, and a design with a larger
\* floor(sample_size / 2) never has a lower power.
C21_PowerMonotone ==
    /\ (DirectReturned("compute_power") /\ direct.n_per_group >= 2) =>
          /\ ~direct.ret.nan
          /\ \A n2 \in TabulatedPerGroup :
                n2 >= direct.n_per_group =>
                   compute_power(direct.effect_size, n2, direct.alpha)
                      >= direct.ret.value
    /\ DirectReturned("score_design") =>
          \A s2 \in ScoreSampleSizes :
             (s2 \div 2) >= (direct.sample_size \div 2) =>
                compute_power(direct.est_effect, n_per_group_of(s2), DefaultAlpha)
                   >= direct.pow_score

\* compute_power returned for 2 per group, strictly below the power for 12
C21_Witness ==
    /\ DirectReturned("compute_power")
    /\ direct.n_per_group = 2
    /\ ~direct.ret.nan
    /\ direct.ret.value = 57381
    /\ compute_power(direct.effect_size, 12, direct.alpha) > direct.ret.value

\* the call returned from the selection loop, not from the except branch
ClusteringPath(c) == Returned(c) /\ labels[c] # <<>>

\* C22: on the clustering path the returned list holds exactly one
\* representative for every label 0..k-1, and no pool candidate with the same
\* label has a strictly higher score than the representative.
C22_OneBestPerCluster ==
    \A c \in Callers :
       ClusteringPath(c) =>
          /\ Len(result[c]) = k[c]
          /\ \A lab \in 0..(k[c] - 1) :
                /\ Cardinality({i \in 1..Len(result[c]) :
                                   labels[c][result[c][i]] = lab}) = 1
                /\ \A i \in 1..Len(result[c]) :
                      labels[c][result[c][i]] = lab =>
                         \A j \in 1..Len(pool[c]) :
                            labels[c][j] = lab =>
                               pool[c][j].score <= pool[c][result[c][i]].score

\* two clusters, one of them with two members of different score, the
\* better one returned
C22_Witness ==
    \E c \in Callers :
       /\ ClusteringPath(c)
       /\ k[c] = 2
       /\ \E i, j \in 1..Len(pool[c]) :
             /\ i # j
             /\ labels[c][i] = labels[c][j]
             /\ pool[c][i].score < pool[c][j].score
             /\ \E r \in 1..Len(result[c]) : result[c][r] = j

\* C23: when several members of one cluster share the highest score, the
\* representative is the one with the lowest sample_size, and among equal
\* sample sizes the one with the lowest pool index.
C23_TieBreak ==
    \A c \in Callers :
       ClusteringPath(c) =>
          \A i \in 1..Len(result[c]) :
             LET r == result[c][i]
             IN  \A j \in 1..Len(pool[c]) :
                    (/\ labels[c][j] = labels[c][r]
                     /\ pool[c][j].score = pool[c][r].score)
                    => \/ pool[c][r].sample_size < pool[c][j].sample_size
                       \/ /\ pool[c][r].sample_size = pool[c][j].sample_size
                          /\ r <= j

\* C24: the per-group size handed to the power computation for a total
\* sample size N is max(2, floor(N/2)), the truncated value and not N/2,
\* whatever the candidate's rand_ratio.
C24_PerArmTruncated ==
    /\ DirectReturned("score_design") =>
          LET N == direct.sample_size
          IN  /\ direct.n_per_group = (IF N \div 2 >= 2 THEN N \div 2 ELSE 2)
              /\ N >= 4 => 2 * direct.n_per_group <= N
    /\ DirectReturned("generate_candidate") =>
          LET N == direct.ret.sample_size
          IN  /\ direct.estimator_call.sample_size = N
              /\ direct.estimator_call.n_per_group =
                    (IF N \div 2 >= 2 THEN N \div 2 ELSE 2)
              /\ 2 * direct.estimator_call.n_per_group <= N

\* a candidate of the odd sample size 21 with ratio 2.0 was estimated at 10
\* per group
C24_Witness ==
    /\ DirectReturned("generate_candidate")
    /\ direct.ret.sample_size = 21
    /\ direct.ret.rand_ratio = 20
    /\ direct.estimator_call.n_per_group = 10

\* C25: no step changes a candidate that is already in the pool, so every pool
\* candidate keeps the sample_size, looseness, rand_ratio and score assigned at
\* its generation, and every entry of the returned list is a candidate of the
\* pool, equal to it in every field.
C25_NoMutation ==
    [][\A c \in Callers :
          /\ Len(pool'[c]) >= Len(pool[c])
          /\ \A i \in 1..Len(pool[c]) : pool'[c][i] = pool[c][i]
          /\ \A i \in 1..Len(pool'[c]) :
                /\ pool'[c][i].sample_size = estimator_calls'[c][i].sample_size
                /\ pool'[c][i].score =
                      score_design(pool'[c][i].sample_size, pool'[c][i].looseness,
                                   DefaultEstEffect)
          /\ \A i \in 1..Len(result'[c]) :
                /\ result'[c][i] \in 1..Len(pool'[c])
                /\ \E j \in 1..Len(pool[c]) : Shortlist(c)'[i] = pool[c][j]]_vars

\* a call returned from the selection loop a list ordered differently from
\* the pool, the pool still holding the generated values
C25_Witness ==
    \E c \in Callers :
       /\ ClusteringPath(c)
       /\ Len(result[c]) = 2
       /\ result[c][1] > result[c][2]
       /\ Shortlist(c)[1] = pool[c][result[c][1]]
       /\ \A i \in 1..Len(pool[c]) :
             pool[c][i].score =
                score_design(pool[c][i].sample_size, pool[c][i].looseness,
                             DefaultEstEffect)

\* the generation loop of the call is over
LoopDone(c) == pc[c] # "generate"

\* C26: within one call, clustering starts only when all pool_size candidates
\* are generated and scored, and once it has started there is no further
\* random draw and no further scoring.
C26_ClusterAfterScoring ==
    [][\A c \in Callers :
          LoopDone(c)' =>
             /\ Len(pool'[c]) = (IF pool_size[c] > 0 THEN pool_size[c] ELSE 0)
             /\ Len(estimator_calls'[c]) = Len(pool'[c])
             /\ LoopDone(c) =>
                   /\ rng' = rng
                   /\ estimator_calls'[c] = estimator_calls[c]
                   /\ Len(pool'[c]) = Len(pool[c])]_vars

\* a call with a pool of three candidates has clustered and selected
C26_Witness ==
    \E c \in Callers :
       /\ ClusteringPath(c)
       /\ pool_size[c] = 3
       /\ Len(pool[c]) = 3
       /\ Len(rng) = 3
       /\ Len(estimator_calls[c]) = 3

\* C27: whenever a call returns a non-empty list, no candidate of the pool has
\* a strictly higher score than the first element of the list.
C27_FirstIsPoolBest ==
    \A c \in Callers :
       (Returned(c) /\ Len(result[c]) >= 1) =>
          \A j \in 1..Len(pool[c]) :
             pool[c][j].score <= Shortlist(c)[1].score

\* the except branch returned a list whose first element is not the first
\* candidate of the pool, which scores strictly lower
C27_Witness ==
    \E c \in Callers :
       /\ Returned(c)
       /\ ~ClusteringPath(c)
       /\ Len(result[c]) >= 1
       /\ result[c][1] # 1
       /\ pool[c][1].score < Shortlist(c)[1].score

\* C28: two candidates with equal sample_size and equal looseness have equal
\* score whatever their rand_ratio: the candidate built from the same draws
\* but another ratio has the same score and the same estimator arguments; the
\* ratio is stored in the candidate only.
C28_ScoreIgnoresRatio ==
    DirectReturned("generate_candidate") =>
       \A r2 \in RandRatioChoices :
          LET other == generate_candidate(direct.parsed, direct.variation_frac,
                                          [direct.draw EXCEPT !.rand_ratio = r2])
          IN  /\ other.sample_size = direct.ret.sample_size
              /\ other.looseness = direct.ret.looseness
              /\ other.rand_ratio = r2
              /\ other.score = direct.ret.score
              /\ direct.ret.score =
                    score_design(direct.ret.sample_size, direct.ret.looseness,
                                 DefaultEstEffect)

\* a candidate with ratio 2.0 was returned; the one with ratio 1.0 from the
\* same draws differs from it, with the same score
C28_Witness ==
    /\ DirectReturned("generate_candidate")
    /\ direct.ret.rand_ratio = 20
    /\ direct.ret.looseness = 1
    /\ LET other == generate_candidate(direct.parsed, direct.variation_frac,
                                       [direct.draw EXCEPT !.rand_ratio = 10])
       IN  other # direct.ret /\ other.score = direct.ret.score

InProtocol == direct.fn = "generate_full_protocol"
ProtocolDone == InProtocol /\ direct.pc \in {"returned", "raised"}

\* the number of calls of the given kind made so far
LLMCalls(kind) ==
    Cardinality({i \in 1..Len(direct.log) : direct.log[i].call = kind})

\* the call counts and the order of the calls claimed for generate_full_protocol
ProtocolCallDiscipline ==
    InProtocol =>
       LET log == direct.log
           n == Len(direct.log)
       IN  /\ LLMCalls("primary") <= 2
           /\ LLMCalls("followup") <= 1
           /\ n <= 3
           /\ direct.exception # "RuntimeError_unable_to_generate"
           /\ \A i \in 1..n :
                 \* the repair call is the last call and follows a parse failure
                 /\ log[i].call = "followup" =>
                       /\ i = n /\ i > 1
                       /\ log[i - 1] = [call |-> "primary", outcome |-> "JSONDecodeError"]
                       /\ direct.pc \in {"returned", "raised"}
                       /\ log[i].outcome # "ok" =>
                             /\ direct.pc = "raised"
                             /\ direct.exception = "RuntimeError_failed_to_parse"
                 \* a parse failure of a primary call is followed by the repair call
                 /\ (log[i].call = "primary" /\ log[i].outcome = "JSONDecodeError") =>
                       /\ i = n => direct.pc = "except_json"
                       /\ i < n => (i + 1 = n /\ log[i + 1].call = "followup")
                 \* another exception: retried once, re-raised the second time
                 /\ (log[i].call = "primary"
                     /\ log[i].outcome \notin {"ok", "JSONDecodeError"}) =>
                       /\ i = 1 => /\ n = 1 => direct.pc \in {"for", "try"}
                                   /\ n >= 2 => log[2].call = "primary"
                       /\ i = 2 => /\ direct.pc = "raised"
                                   /\ direct.exception = log[i].outcome
                       /\ i <= 2
           /\ direct.pc = "returned" =>
                 /\ n >= 1 /\ log[n].outcome = "ok"
                 /\ \A j \in 1..Len(direct.ret) : MetadataKeys \subseteq direct.ret[j]
           /\ direct.pc = "raised" =>
                 /\ n >= 2 /\ log[n].outcome # "ok"

\* C29: generate_full_protocol always ends by returning the parsed protocols
\* or raising, after at most 2 primary calls and at most 1 repair call; a JSON
\* parse failure leads to exactly one repair call whose failure raises
\* RuntimeError without a further attempt; any other exception is retried once
\* and re-raised on the second attempt; the raise after the loop is never
\* reached.
C29_BoundedAttempts == []ProtocolCallDiscipline /\ <>ProtocolDone

\* three calls were made: an API error, then text that is no JSON, then a
\* repair call that failed, and RuntimeError was raised
C29_Witness ==
    /\ InProtocol
    /\ direct.pc = "raised"
    /\ direct.exception = "RuntimeError_failed_to_parse"
    /\ Len(direct.log) = 3
    /\ direct.log[1] = [call |-> "primary", outcome |-> "APIError"]
    /\ direct.log[2] = [call |-> "primary", outcome |-> "JSONDecodeError"]
    /\ direct.log[3].call = "followup"
    /\ direct.attempt = 1

InPatients == direct.fn = "generate_patients"

\* C30: generate_patients raises ValueError before generating anything when
\* count <= 0 or count > 100; otherwise a failing iteration skips that patient
\* only, and the call returns a non-empty list of at most count patients in
\* generation order, or raises when every one of the count attempts failed;
\* it never returns an empty list.
C30_PatientsOrRaise ==
    /\ \A n \in (-2)..102 :
          (count_check(n) # "ok") <=> (n <= 0 \/ n > 100)
    /\ InPatients =>
          LET d == direct
              ok == {d.patients[j].patient : j \in 1..Len(d.patients)}
              failed == {d.warnings[j].patient : j \in 1..Len(d.warnings)}
          IN  /\ (d.count <= 0 \/ d.count > 100) =>
                    /\ d.pc \in {"called", "raised"}
                    /\ d.pc = "raised" =>
                          d.exception \in {"ValueError_must_be_greater_than_0",
                                           "ValueError_maximum_100"}
                    /\ d.i = 0 /\ d.patients = <<>> /\ d.warnings = <<>>
              /\ (d.count > 0 /\ d.count <= 100) =>
                    /\ ok \cup failed = 1..d.i
                    /\ ok \cap failed = {}
                    /\ \A j \in 1..(Len(d.patients) - 1) :
                          d.patients[j].patient < d.patients[j + 1].patient
                    /\ \A j \in 1..Len(d.patients) :
                          d.patients[j].format = d.output_format
                    /\ d.pc \in {"returned", "raised"} => d.i = d.count
                    /\ d.pc = "returned" =>
                          /\ d.ret = d.patients
                          /\ d.ret # <<>>
                          /\ Len(d.ret) <= d.count
                    /\ d.pc = "raised" =>
                          /\ d.exception = "Exception_failed_to_generate_any"
                          /\ failed = 1..d.count
                          /\ d.patients = <<>>
              /\ d.pc = "returned" => d.ret # <<>>

\* a call for three patients returned the first and the third, the second
\* having failed in the conversion
C30_Witness ==
    /\ InPatients
    /\ direct.pc = "returned"
    /\ direct.count = 3
    /\ Len(direct.ret) = 2
    /\ direct.ret[1].patient = 1
    /\ direct.ret[2].patient = 3
    /\ direct.warnings = <<[patient |-> 2, stage |-> "format"]>>

====
